---- MODULE Spec2Model ----
(***************************************************************************)
(* Model of the project analyser of rust-visualizer (src-tauri/src).       *)
(*                                                                         *)
(* Strings of the program are sequences of one-character strings, so that  *)
(* replace / split / trim / contains are computed as the Rust standard     *)
(* library computes them.                                                  *)
(***************************************************************************)
EXTENDS Integers, Sequences, FiniteSets, TLC

VARIABLES
    project,        \* the directory on disk: manifests, cargo outcome, files
    pc,             \* position of analyze_project / analyze / the caller
    cursor,         \* index of the last directory entry the walk has yielded
    modules,        \* the running analyzer's `modules`
    dependencies,   \* the running analyzer's `dependencies`
    relationships,  \* the running analyzer's `relationships`
    diagnostics,    \* paths named on stderr by eprintln!
    result,         \* what analyze_project returned
    structure,      \* the ProjectStructure handed to analyze_problems
    problems        \* what analyze_problems returned

vars == <<project, pc, cursor, modules, dependencies, relationships,
          diagnostics, result, structure, problems>>

None == [none |-> TRUE]

(***************************************************************************)
(* Bounds of the model.                                                    *)
(***************************************************************************)
MaxFiles == 2
MaxModules == 2
MaxRels == 2
MaxStemParts == 3
MaxLineParts == 4
MaxSegments == 2

(***************************************************************************)
(* str: the operations of the Rust standard library the code uses.         *)
(***************************************************************************)
Min(S) == CHOOSE x \in S : \A y \in S : x <= y

Drop(s, n) == SubSeq(s, n + 1, Len(s))

StartsWith(s, p) == Len(p) <= Len(s) /\ SubSeq(s, 1, Len(p)) = p

EndsWith(s, p) == Len(p) <= Len(s) /\ SubSeq(s, Len(s) - Len(p) + 1, Len(s)) = p

\* str::find: index (from 1) of the first match, 0 when there is none
Find(s, p) ==
    LET I == {i \in 1..(Len(s) - Len(p) + 1) : SubSeq(s, i, i + Len(p) - 1) = p}
    IN IF I = {} THEN 0 ELSE Min(I)

Contains(s, p) == Find(s, p) # 0

\* str::replace: every non-overlapping match, left to right
RECURSIVE Replace(_, _, _)
Replace(s, pat, rep) ==
    IF Len(s) < Len(pat) \/ Len(pat) = 0 THEN s
    ELSE IF StartsWith(s, pat) THEN rep \o Replace(Drop(s, Len(pat)), pat, rep)
    ELSE <<Head(s)>> \o Replace(Tail(s), pat, rep)

\* str::trim_start_matches: the prefix is removed repeatedly
RECURSIVE TrimStartMatches(_, _)
TrimStartMatches(s, p) ==
    IF Len(p) > 0 /\ StartsWith(s, p) THEN TrimStartMatches(Drop(s, Len(p)), p) ELSE s

\* str::trim_end_matches: the suffix is removed repeatedly
RECURSIVE TrimEndMatches(_, _)
TrimEndMatches(s, p) ==
    IF Len(p) > 0 /\ EndsWith(s, p)
    THEN TrimEndMatches(SubSeq(s, 1, Len(s) - Len(p)), p) ELSE s

\* str::split: the pieces between matches, empty pieces kept
RECURSIVE Split(_, _)
Split(s, pat) ==
    LET i == Find(s, pat)
    IN IF i = 0 THEN <<s>>
       ELSE <<SubSeq(s, 1, i - 1)>> \o Split(Drop(s, i + Len(pat) - 1), pat)

\* [str]::join
RECURSIVE Join(_, _)
Join(parts, sep) ==
    IF Len(parts) = 0 THEN <<>>
    ELSE IF Len(parts) = 1 THEN parts[1]
    ELSE parts[1] \o sep \o Join(Tail(parts), sep)

IsSpace(c) == c \in {" ", "\t"}

RECURSIVE TrimStart(_)
TrimStart(s) == IF Len(s) > 0 /\ IsSpace(Head(s)) THEN TrimStart(Tail(s)) ELSE s

RECURSIVE TrimEnd(_)
TrimEnd(s) ==
    IF Len(s) > 0 /\ IsSpace(s[Len(s)]) THEN TrimEnd(SubSeq(s, 1, Len(s) - 1)) ELSE s

\* str::trim
Trim(s) == TrimEnd(TrimStart(s))

\* str::split_whitespace: the non-empty pieces between runs of whitespace
RECURSIVE SplitWhitespace(_)
SplitWhitespace(s) ==
    LET t == TrimStart(s)
        I == {i \in 1..Len(t) : IsSpace(t[i])}
    IN IF Len(t) = 0 THEN <<>>
       ELSE IF I = {} THEN <<t>>
       ELSE <<SubSeq(t, 1, Min(I) - 1)>> \o SplitWhitespace(Drop(t, Min(I)))

\* Path::file_name of a relative path: what follows the last '/'
FileName(path) ==
    LET I == {i \in 1..Len(path) : path[i] = "/"}
    IN IF I = {} THEN path ELSE Drop(path, CHOOSE i \in I : \A j \in I : j <= i)

\* Path::extension: what follows the last '.' of the file name, unless the
\* file name has no '.' or only begins with one; <<>> stands for None
Extension(path) ==
    LET f == FileName(path)
        I == {i \in 2..Len(f) : f[i] = "."}
    IN IF I = {} THEN <<>> ELSE Drop(f, CHOOSE i \in I : \A j \in I : j <= i)

\* the elements of a sequence
Range(s) == {s[i] : i \in 1..Len(s)}

\* the sequences without repetition that enumerate the finite set S
Orders(S) ==
    {o \in [1..Cardinality(S) -> S] : \A i, j \in 1..Cardinality(S) : o[i] = o[j] => i = j}

(***************************************************************************)
(* analyzer.rs: the graph analyses over `modules` and `relationships`.     *)
(***************************************************************************)

\* the state threaded through dfs_cycle by its &mut parameters
\* the arguments dfs_cycle threads through its calls; `calls` is the history
\* of the run: the nodes dfs_cycle has been called with, in order
DfsState(visited, rec_stack, path, cycles) ==
    [visited |-> visited, rec_stack |-> rec_stack, path |-> path, cycles |-> cycles,
     calls |-> <<>>]

DfsEnter_NoRecStack(st, node) ==
    [st EXCEPT !.visited = @ \cup {node},
               !.path = Append(@, node),
               !.calls = Append(@, node)]

\* visited.insert(node); rec_stack.insert(node); path.push(node)
DfsEnter(st, node) ==
    [st EXCEPT !.visited = @ \cup {node},
               !.rec_stack = @ \cup {node},
               !.path = Append(@, node),
               !.calls = Append(@, node)]

DfsLeave_KeepsNode(st, node) == st

\* path.pop(); rec_stack.remove(node)
DfsLeave(st, node) ==
    [st EXCEPT !.path = SubSeq(@, 1, Len(@) - 1),
               !.rec_stack = @ \ {node}]

\* path.iter().position(|x| x == to): 0 stands for None
Position(path, to) ==
    LET I == {i \in 1..Len(path) : path[i] = to}
    IN IF I = {} THEN 0 ELSE Min(I)

CycleSlice_WholePath(path, pos) == path

\* path[pos..].to_vec()
CycleSlice(path, pos) == SubSeq(path, pos, Len(path))

RECURSIVE dfs_cycle(_, _, _)
RECURSIVE dfs_edges(_, _, _, _)
\* the body of `for rel in &self.relationships`, from the i-th relationship on
dfs_edges(node, i, st, rels) ==
    IF i > Len(rels) THEN st
    ELSE LET rel == rels[i] IN
         IF rel.from # node THEN dfs_edges(node, i + 1, st, rels)
         ELSE IF rel.to \notin st.visited
              THEN dfs_edges(node, i + 1, dfs_cycle(rel.to, st, rels), rels)
         ELSE IF rel.to \in st.rec_stack /\ Position(st.path, rel.to) # 0
              THEN dfs_edges(node, i + 1,
                             [st EXCEPT !.cycles =
                                  Append(@, CycleSlice(st.path, Position(st.path, rel.to)))],
                             rels)
         ELSE dfs_edges(node, i + 1, st, rels)

dfs_cycle(node, st, rels) ==
    DfsLeave(dfs_edges(node, 1, DfsEnter(st, node), rels), node)

\* `for module in &self.modules`, from the i-th module on; each top-level call
\* gets a fresh path (&mut Vec::new()), and the path is empty again on return
RECURSIVE detect_from(_, _, _, _)
detect_from(i, st, mods, rels) ==
    IF i > Len(mods) THEN st
    ELSE IF mods[i].id \in st.visited THEN detect_from(i + 1, st, mods, rels)
    ELSE detect_from(i + 1,
                     [dfs_cycle(mods[i].id, [st EXCEPT !.path = <<>>], rels)
                         EXCEPT !.path = <<>>],
                     mods, rels)

\* the state detect_cycles ends in
detect_run(mods, rels) == detect_from(1, DfsState({}, {}, <<>>, <<>>), mods, rels)

detect_cycles(mods, rels) == detect_run(mods, rels).cycles

\* self.relationships.iter().filter(..).count()
RECURSIVE CountRels(_, _, _)
CountRels(rels, field, id) ==
    IF Len(rels) = 0 THEN 0
    ELSE (IF rels[1][field] = id THEN 1 ELSE 0) + CountRels(Tail(rels), field, id)

\* one file of the directory by its path, None when there is none
FileAt(files, path) ==
    IF \E i \in 1..Len(files) : files[i].path = path
    THEN files[CHOOSE i \in 1..Len(files) : files[i].path = path]
    ELSE None

\* fs::read_to_string(&module.path).map(|c| c.lines().count()).unwrap_or(0)
LinesOfCode(files, path) ==
    LET f == FileAt(files, path)
    IN IF f = None \/ ~f.content.utf8 THEN 0 ELSE f.content.lines

ModuleMetrics(m, rels, files) ==
    [lines_of_code |-> LinesOfCode(files, m.path),
     incoming_deps |-> CountRels(rels, "to", m.id),
     outgoing_deps |-> CountRels(rels, "from", m.id),
     complexity_score |-> Len(m.items)]

\* the HashMap keyed by module id: a later insert of the same key replaces
\* the earlier one
calculate_metrics(mods, rels, files) ==
    [id \in {mods[i].id : i \in 1..Len(mods)} |->
        LET last == CHOOSE i \in 1..Len(mods) :
                        /\ mods[i].id = id
                        /\ \A j \in 1..Len(mods) : mods[j].id = id => j <= i
        IN ModuleMetrics(mods[last], rels, files)]

IsUsed_AnyKind(rels, id) == \E i \in 1..Len(rels) : rels[i].to = id

\* self.relationships.iter().any(|r| r.to == module.id && r.rel_type == Uses)
IsUsed(rels, id) ==
    \E i \in 1..Len(rels) : rels[i].to = id /\ rels[i].rel_type = "Uses"

IsEntry(m) == m.module_type = "Binary" \/ m.module_type = "Library"

RECURSIVE find_unused_modules(_, _)
find_unused_modules(mods, rels) ==
    IF Len(mods) = 0 THEN <<>>
    ELSE (IF ~IsUsed(rels, mods[1].id) /\ ~IsEntry(mods[1])
          THEN <<mods[1].name>> ELSE <<>>)
         \o find_unused_modules(Tail(mods), rels)

(***************************************************************************)
(* main.rs: analyze_problems.                                              *)
(***************************************************************************)
T_lines == 500
T_incoming == 10

\* structure.modules.iter().find(|m| &m.id == id): the first module of that id
FindModule(mods, id) ==
    mods[Min({i \in 1..Len(mods) : mods[i].id = id})]

\* `for (id, metric) in &metrics`, in the order the HashMap yields its keys
RECURSIVE Classify(_, _, _, _)
Classify(order, metrics, mods, which) ==
    IF Len(order) = 0 THEN <<>>
    ELSE LET id == order[1]
             metric == metrics[id]
             hit == IF which = "large" THEN metric.lines_of_code > T_lines
                    ELSE metric.incoming_deps > T_incoming
             n == IF which = "large" THEN metric.lines_of_code
                  ELSE metric.incoming_deps
         IN (IF hit /\ \E i \in 1..Len(mods) : mods[i].id = id
             THEN <<[name |-> FindModule(mods, id).name, n |-> n]>> ELSE <<>>)
            \o Classify(Tail(order), metrics, mods, which)

\* analyze_problems(structure), the HashMap yielding its keys in `order`
analyze_problems(s, files, order) ==
    LET metrics == calculate_metrics(s.modules, s.relationships, files)
    IN [cycles |-> detect_cycles(s.modules, s.relationships),
        unused_modules |-> find_unused_modules(s.modules, s.relationships),
        large_modules |-> Classify(order, metrics, s.modules, "large"),
        highly_coupled |-> Classify(order, metrics, s.modules, "coupled")]

(***************************************************************************)
(* models.rs: the records, and the strings the model's inputs are made of. *)
(***************************************************************************)
Module(id, name, path, module_type, items) ==
    [id |-> id, name |-> name, path |-> path, module_type |-> module_type,
     visibility |-> "Public", items |-> items]

Item(name, item_type, visibility) ==
    [name |-> name, item_type |-> item_type, visibility |-> visibility]

Relationship(from, to, rel_type) == [from |-> from, to |-> to, rel_type |-> rel_type]

Dependency(name, version, dep_type) ==
    [name |-> name, version |-> version, dep_type |-> dep_type]

ProjectStructure(root_path, mods, deps, rels) ==
    [root_path |-> root_path, modules |-> mods, dependencies |-> deps,
     relationships |-> rels]

\* one entry of the directory: its path relative to the root, and its content
File(path, content) == [path |-> path, content |-> content]

\* a file's content: whether it is valid UTF-8, its count of physical lines,
\* what syn::parse_file makes of it (syntax_ok, items), and its lines of text
Content(utf8, lines, syntax_ok, items, text) ==
    [utf8 |-> utf8, lines |-> lines, syntax_ok |-> syntax_ok, items |-> items,
     text |-> text]

s_root == <<"/", "p">>
s_a == <<"a">>
s_b == <<"b">>
s_main == <<"m", "a", "i", "n">>
s_lib == <<"l", "i", "b">>
p_src_main == <<"s", "r", "c", "/", "m", "a", "i", "n", ".", "r", "s">>
p_src_lib == <<"s", "r", "c", "/", "l", "i", "b", ".", "r", "s">>
p_src_a == <<"s", "r", "c", "/", "a", ".", "r", "s">>
p_tests_a == <<"t", "e", "s", "t", "s", "/", "a", ".", "r", "s">>
s_slash == <<"/">>

\* the string literals of the code
s_tests_dir == <<"t", "e", "s", "t", "s", "/">>
s_test_rs == <<"t", "e", "s", "t", ".", "r", "s">>
s_examples_dir == <<"e", "x", "a", "m", "p", "l", "e", "s", "/">>
s_benches_dir == <<"b", "e", "n", "c", "h", "e", "s", "/">>
s_main_rs == <<"m", "a", "i", "n", ".", "r", "s">>
s_lib_rs == <<"l", "i", "b", ".", "r", "s">>
s_colons == <<":", ":">>
s_underscore == <<"_">>
s_import == <<"i", "m", "p", "o", "r", "t", " ">>
s_from == <<"f", "r", "o", "m", " ">>
s_def == <<"d", "e", "f", " ">>
s_class == <<"c", "l", "a", "s", "s", " ">>
s_test_ == <<"t", "e", "s", "t", "_">>
s_tests_seg == <<"/", "t", "e", "s", "t", "s", "/">>
s_examples_seg == <<"/", "e", "x", "a", "m", "p", "l", "e", "s", "/">>
s_dunder_main_py == <<"_", "_", "m", "a", "i", "n", "_", "_", ".", "p", "y">>
s_dot == <<".">>
s_py_ext == <<".", "p", "y">>
s_slash_init == <<"/", "_", "_", "i", "n", "i", "t", "_", "_">>
s_backslash == <<"\\">>
s_src_dir == <<"s", "r", "c", "/">>
s_rs_ext == <<".", "r", "s">>
s_slash_mod == <<"/", "m", "o", "d">>
s_rs == <<"r", "s">>
s_py == <<"p", "y">>

s_eqeq == <<"=", "=">>
s_hash == <<"#">>
s_star == <<"*">>
s_cargo_toml == <<"C", "a", "r", "g", "o", ".", "t", "o", "m", "l">>
s_requirements_txt == <<"r", "e", "q", "u", "i", "r", "e", "m", "e", "n", "t", "s", ".", "t", "x", "t">>
s_setup_py == <<"s", "e", "t", "u", "p", ".", "p", "y">>
s_pyproject_toml == <<"p", "y", "p", "r", "o", "j", "e", "c", "t", ".", "t", "o", "m", "l">>
s_init_py == <<"_", "_", "i", "n", "i", "t", "_", "_", ".", "p", "y">>

python_markers_AnySource ==
    <<s_setup_py, s_requirements_txt, s_pyproject_toml, s_init_py, <<"a", ".", "p", "y">>>>

\* main.rs: the marker files of a Python project, in the order they are tried
python_markers == <<s_setup_py, s_requirements_txt, s_pyproject_toml, s_init_py>>

\* python_analyzer.rs: the manifests parse_requirements tries, in order
req_files == <<s_requirements_txt, s_setup_py, s_pyproject_toml>>

\* PathBuf::join(root, relative).display()
FullPath(root, rel) == root \o s_slash \o rel

(***************************************************************************)
(* parser.rs: RustParser.  A file's syntax tree is what syn::parse_file    *)
(* returns: items, each with its kind, identifier, visibility, use tree    *)
(* and the items nested in it (the content of an inline module, the items  *)
(* declared in a function body).                                           *)
(***************************************************************************)
UseTree(t, ident, sub) == [t |-> t, ident |-> ident, sub |-> sub]

UseGlob == UseTree("Glob", <<>>, <<>>)

SynItem(kind, ident, vis, tree, inner) ==
    [kind |-> kind, ident |-> ident, vis |-> vis, tree |-> tree, inner |-> inner]

ItemKinds == {"Fn", "Struct", "Enum", "Trait", "Const", "Static", "Type", "Macro"}

ItemTypeOf(kind) == IF kind = "Fn" THEN "Function" ELSE kind

convert_visibility(vis) ==
    CASE vis = "pub" -> "Public"
      [] vis = "pub(crate)" -> "Crate"
      [] vis = "pub(super)" -> "Super"
      [] OTHER -> "Private"

UseName_NotRecorded(tree) == <<>>

\* UseTree::Name(n) => self.uses.push(n.ident.to_string())
UseName(tree) == <<tree.ident>>

RECURSIVE extract_use_paths(_)
RECURSIVE extract_use_group(_)
extract_use_paths(tree) ==
    CASE tree.t = "Path" ->
            extract_use_paths(tree.sub[1])
                \o (IF tree.ident # <<>> THEN <<tree.ident>> ELSE <<>>)
      [] tree.t = "Name" -> UseName(tree)
      [] tree.t = "Rename" -> <<tree.ident>>
      [] tree.t = "Glob" -> <<>>
      [] tree.t = "Group" -> extract_use_group(tree.sub)

extract_use_group(trees) ==
    IF Len(trees) = 0 THEN <<>>
    ELSE extract_use_paths(trees[1]) \o extract_use_group(Tail(trees))

\* what visit_item pushes for one item, before it descends
RecordedItem(item) ==
    IF item.kind \in ItemKinds \ {"Macro"}
    THEN <<Item(item.ident, ItemTypeOf(item.kind), convert_visibility(item.vis))>>
    ELSE IF item.kind = "Macro" /\ item.ident # <<>>
    THEN <<Item(item.ident, "Macro", "Public")>>
    ELSE <<>>

\* visit_item on each item of a list: the item is recorded, then
\* syn::visit::visit_item descends into it, which visits its use tree
\* (visit_item_use) and every item nested in it (visit_item again)
RECURSIVE visit_items(_)
visit_items(items) ==
    IF Len(items) = 0 THEN [items |-> <<>>, uses |-> <<>>]
    ELSE LET item == items[1]
             own == IF item.kind = "Use" THEN extract_use_paths(item.tree) ELSE <<>>
             inner == visit_items(item.inner)
             rest == visit_items(Tail(items))
         IN [items |-> RecordedItem(item) \o inner.items \o rest.items,
             uses |-> own \o inner.uses \o rest.uses]

determine_module_type(path_str) ==
    IF Contains(path_str, s_tests_dir) \/ Contains(path_str, s_test_rs) THEN "Test"
    ELSE IF Contains(path_str, s_examples_dir) THEN "Example"
    ELSE IF Contains(path_str, s_benches_dir) THEN "Benchmark"
    ELSE IF Contains(path_str, s_main_rs) THEN "Binary"
    ELSE IF Contains(path_str, s_lib_rs) THEN "Library"
    ELSE "Module"

\* module_path.replace("::", "_")
RustId(module_path) == Replace(module_path, s_colons, s_underscore)

\* RustParser::parse_file followed by get_uses: ok is FALSE when
\* fs::read_to_string or syn::parse_file fails
parse_file(path, module_path, content) ==
    IF ~content.utf8 \/ ~content.syntax_ok
    THEN [ok |-> FALSE, module |-> None, uses |-> <<>>]
    ELSE LET v == visit_items(content.items)
         IN [ok |-> TRUE,
             module |-> Module(RustId(module_path), module_path, path,
                               determine_module_type(path), v.items),
             uses |-> v.uses]

(***************************************************************************)
(* python_analyzer.rs: the line scanner.                                   *)
(***************************************************************************)
\* the index of the first element of s that is in the set cs, 0 when none
FindAny(s, cs) ==
    LET I == {i \in 1..Len(s) : s[i] \in cs} IN IF I = {} THEN 0 ELSE Min(I)

extract_import_FirstSegment(line) ==
    LET parts == SplitWhitespace(line)
    IN IF (StartsWith(line, s_import) \/ StartsWith(line, s_from)) /\ Len(parts) >= 2
       THEN <<Split(parts[2], s_dot)[1]>>
       ELSE <<>>

\* both branches take the second whitespace-delimited token; <<>> is None
extract_import(line) ==
    LET parts == SplitWhitespace(line)
    IN IF StartsWith(line, s_import) \/ StartsWith(line, s_from)
       THEN (IF Len(parts) >= 2 THEN <<parts[2]>> ELSE <<>>)
       ELSE <<>>

\* the text between "def " and the next '(' ; <<>> is None
extract_function_name(line) ==
    LET start == Find(line, s_def) - 1 + 4
        rest == Drop(line, start)
        end == FindAny(rest, {"("})
    IN IF Find(line, s_def) = 0 \/ end = 0 THEN <<>>
       ELSE <<Trim(SubSeq(rest, 1, end - 1))>>

\* the text between "class " and the next '(' or ':', or the end of the line
extract_class_name(line) ==
    LET start == Find(line, s_class) - 1 + 6
        rest == Drop(line, start)
        end == FindAny(rest, {"(", ":"})
    IN IF Find(line, s_class) = 0 THEN <<>>
       ELSE <<Trim(SubSeq(rest, 1, IF end = 0 THEN Len(rest) ELSE end - 1))>>

NamingVisibility_AlwaysPublic(name) == "Public"

NamingVisibility(name) == IF StartsWith(name, s_underscore) THEN "Private" ELSE "Public"

\* the body of `for line in content.lines()` over all lines
RECURSIVE scan_lines(_)
scan_lines(text) ==
    IF Len(text) = 0 THEN [items |-> <<>>, uses |-> <<>>]
    ELSE LET line == Trim(text[1])
             imp == IF StartsWith(line, s_import) \/ StartsWith(line, s_from)
                    THEN extract_import(line) ELSE <<>>
             fn == IF StartsWith(line, s_def) THEN extract_function_name(line) ELSE <<>>
             cl == IF StartsWith(line, s_class) THEN extract_class_name(line) ELSE <<>>
             rest == scan_lines(Tail(text))
         IN [items |->
                (IF fn # <<>> THEN <<Item(fn[1], "Function", NamingVisibility(fn[1]))>>
                 ELSE <<>>)
                \o (IF cl # <<>> THEN <<Item(cl[1], "Struct", NamingVisibility(cl[1]))>>
                    ELSE <<>>)
                \o rest.items,
             uses |-> imp \o rest.uses]

py_determine_module_type(path_str) ==
    IF Contains(path_str, s_test_) \/ Contains(path_str, s_tests_seg) THEN "Test"
    ELSE IF Contains(path_str, s_examples_seg) THEN "Example"
    ELSE IF EndsWith(path_str, s_dunder_main_py) THEN "Binary"
    ELSE "Module"

PyId_KeepsDots(module_path) == Replace(module_path, s_slash, s_underscore)

\* module_path.replace(".", "_").replace("/", "_")
PyId(module_path) == Replace(Replace(module_path, s_dot, s_underscore), s_slash, s_underscore)

\* PythonAnalyzer::parse_python_file: ok is FALSE when fs::read_to_string fails
parse_python_file(path, module_path, content) ==
    IF ~content.utf8 THEN [ok |-> FALSE, module |-> None, uses |-> <<>>]
    ELSE LET v == scan_lines(content.text)
         IN [ok |-> TRUE,
             module |-> Module(PyId(module_path), module_path, path,
                               py_determine_module_type(path), v.items),
             uses |-> v.uses]

\* PythonAnalyzer::path_to_module_name
py_path_to_module_name(path_str) ==
    Replace(Replace(Replace(TrimEndMatches(path_str, s_py_ext), s_slash_init, <<>>),
                    s_slash, s_dot),
            s_backslash, s_dot)

(***************************************************************************)
(* analyzer.rs: ProjectAnalyzer, path normalisation and relationships.     *)
(***************************************************************************)
\* ProjectAnalyzer::path_to_module_name
path_to_module_name(path_str) ==
    LET trimmed ==
            TrimEndMatches(
                TrimStartMatches(
                    TrimStartMatches(
                        TrimStartMatches(TrimStartMatches(path_str, s_src_dir), s_tests_dir),
                        s_examples_dir),
                    s_benches_dir),
                s_rs_ext)
    IN Replace(Replace(Replace(trimmed, s_slash_mod, <<>>), s_slash, s_colons),
               s_backslash, s_colons)

(***************************************************************************)
(* The caller of analyze_problems: any ProjectStructure may be passed.     *)
(***************************************************************************)
CallerIds == {s_a, s_main, s_lib}

CallerModules ==
    {Module(s_a, s_a, FullPath(s_root, p_src_a), "Module", <<>>),
     Module(s_a, s_a, FullPath(s_root, p_tests_a), "Test", <<>>),
     Module(s_main, s_main, FullPath(s_root, p_src_main), "Binary", <<>>),
     Module(s_lib, s_lib, FullPath(s_root, p_src_lib), "Library", <<>>)}

CallerRelationships ==
    {Relationship(f, t, "Uses") : f \in CallerIds, t \in CallerIds}
    \cup {Relationship(s_main, s_a, "Declares"), Relationship(s_a, s_lib, "Declares")}

PlainText(lines) == Content(TRUE, lines, TRUE, <<>>, <<>>)

\* the files the caller's modules name, as they are on disk: at the threshold,
\* one line above it, and unreadable
CallerDisk ==
    <<File(p_src_a, PlainText(T_lines)), File(p_tests_a, PlainText(T_lines + 1)),
      File(p_src_main, PlainText(T_lines + 1)),
      File(p_src_lib, Content(FALSE, T_lines + 1, FALSE, <<>>, <<>>))>>

Project(root, manifests, cargo, requirements, files) ==
    [exists |-> TRUE, root |-> root, manifests |-> manifests, cargo |-> cargo,
     requirements |-> requirements, files |-> files]

\* the files of the directory under their full paths
Disk(p) ==
    [i \in 1..Len(p.files) |->
        File(FullPath(p.root, p.files[i].path), p.files[i].content)]

\* cargo metadata failed / there is nothing for it to read
NoCargo == [ok |-> FALSE, deps |-> <<>>]

\* no readable requirements.txt
NoRequirements == Content(FALSE, 0, FALSE, <<>>, <<>>)

InitCaller ==
    /\ project = Project(s_root, {}, NoCargo, NoRequirements, CallerDisk)
    /\ pc = "caller"
    /\ cursor = 0
    /\ modules = <<>>
    /\ dependencies = <<>>
    /\ relationships = <<>>
    /\ diagnostics = <<>>
    /\ result = None
    /\ structure = ProjectStructure(s_root, <<>>, <<>>, <<>>)
    /\ problems = None

\* the relationships of a sequence that are not part of a fan-in burst
Singles(rels) == IF Len(rels) >= T_incoming THEN Len(rels) - T_incoming ELSE Len(rels)

CallerAddModule ==
    /\ pc = "caller"
    /\ Len(structure.modules) < MaxModules
    /\ \E m \in CallerModules :
          /\ m \notin Range(structure.modules)
          /\ structure' = [structure EXCEPT !.modules = Append(@, m)]
    /\ UNCHANGED <<project, pc, cursor, modules, dependencies, relationships,
                   diagnostics, result, problems>>

CallerAddRelationship ==
    /\ pc = "caller"
    /\ Singles(structure.relationships) < MaxRels
    /\ Len(structure.relationships) <= T_incoming
    /\ \E r \in CallerRelationships :
          structure' = [structure EXCEPT !.relationships = Append(@, r)]
    /\ UNCHANGED <<project, pc, cursor, modules, dependencies, relationships,
                   diagnostics, result, problems>>

\* T_incoming relationships with one target, so that incoming counts reach
\* the threshold of analyze_problems
CallerAddFanIn ==
    /\ pc = "caller"
    /\ structure.relationships = <<>>
    /\ structure' = [structure EXCEPT !.relationships =
                        [i \in 1..T_incoming |-> Relationship(s_main, s_a, "Uses")]]
    /\ UNCHANGED <<project, pc, cursor, modules, dependencies, relationships,
                   diagnostics, result, problems>>

ModuleIds(mods) == {mods[i].id : i \in 1..Len(mods)}

\* the caller invokes analyze_problems(structure)
CallAnalyzeProblems ==
    /\ pc \in {"caller", "analysed"}
    /\ \E order \in Orders(ModuleIds(structure.modules)) :
          problems' = analyze_problems(structure, Disk(project), order)
    /\ pc' = "analysed"
    /\ UNCHANGED <<project, cursor, modules, dependencies, relationships,
                   diagnostics, result, structure>>

NextCaller ==
    \/ CallerAddModule
    \/ CallerAddRelationship
    \/ CallerAddFanIn
    \/ CallAnalyzeProblems

SpecCaller == InitCaller /\ [][NextCaller]_vars

\* use_path.replace("::", "_") and the Uses relationship made of it
UsesRelationships(from_id, uses, sep) ==
    [i \in 1..Len(uses) |-> Relationship(from_id, Replace(uses[i], sep, s_underscore), "Uses")]

\* parts[..parts.len() - 1].join(sep).replace(sep, "_")
ParentId(name, sep) ==
    LET parts == Split(name, sep)
    IN Replace(Join(SubSeq(parts, 1, Len(parts) - 1), sep), sep, s_underscore)

HasParent_Unchecked(mods, parent_id) == TRUE

\* module_map.contains_key(&parent_id) / self.modules.iter().any(|m| m.id == parent_id)
HasParent(mods, parent_id) == \E i \in 1..Len(mods) : mods[i].id = parent_id

DeclaresRelationship_Reversed(parent_id, m) == Relationship(m.id, parent_id, "Declares")

DeclaresRelationship(parent_id, m) == Relationship(parent_id, m.id, "Declares")

\* the second loop of build_relationships, from the i-th module on
RECURSIVE declares_from(_, _, _)
declares_from(i, mods, sep) ==
    IF i > Len(mods) THEN <<>>
    ELSE (IF Len(Split(mods[i].name, sep)) > 1 /\ HasParent(mods, ParentId(mods[i].name, sep))
          THEN <<DeclaresRelationship(ParentId(mods[i].name, sep), mods[i])>>
          ELSE <<>>)
         \o declares_from(i + 1, mods, sep)

build_relationships(mods, rels, sep) == rels \o declares_from(1, mods, sep)

\* cargo_metadata::DependencyKind to DependencyType
DependencyType(kind) ==
    CASE kind = "Normal" -> "Normal"
      [] kind = "Development" -> "Dev"
      [] kind = "Build" -> "Build"
      [] OTHER -> "Normal"

\* ProjectAnalyzer::parse_dependencies over what cargo metadata returned
parse_dependencies(deps) ==
    [i \in 1..Len(deps) |->
        Dependency(deps[i].name, deps[i].req, DependencyType(deps[i].kind))]

\* the requirements.txt loop of PythonAnalyzer::parse_requirements
RECURSIVE parse_requirements(_)
parse_requirements(text) ==
    IF Len(text) = 0 THEN <<>>
    ELSE LET line == Trim(text[1])
             parts == Split(line, s_eqeq)
         IN (IF Len(line) = 0 \/ StartsWith(line, s_hash) THEN <<>>
             ELSE <<Dependency(Trim(parts[1]),
                               Trim(IF Len(parts) >= 2 THEN parts[2] ELSE s_star),
                               "Normal")>>)
            \o parse_requirements(Tail(text))

(***************************************************************************)
(* The directory and the walk over it.                                     *)
(***************************************************************************)
\* Path::exists for a file directly under the root
Exists(p, name) ==
    name \in p.manifests \/ \E i \in 1..Len(p.files) : p.files[i].path = name

\* Path::exists for a directory directly under the root
DirExists(p, dir) == \E i \in 1..Len(p.files) : StartsWith(p.files[i].path, dir)

\* what WalkDir::new(root.join(dir)) yields, in directory order, filtered by
\* path.extension() == Some(ext)
Entries(p, dir, ext) ==
    SelectSeq(p.files, LAMBDA f : StartsWith(f.path, dir) /\ Extension(f.path) = ext)

SrcEntries(p) == Entries(p, s_src_dir, s_rs)

\* walk_additional_dirs("tests"), ("examples"), ("benches"), one after another
AuxEntries(p) ==
    Entries(p, s_tests_dir, s_rs) \o Entries(p, s_examples_dir, s_rs)
        \o Entries(p, s_benches_dir, s_rs)

PyEntries(p) == Entries(p, <<>>, s_py)

\* where walk_source_files goes once the loop over src/ is over (or at once,
\* by its early return, when there is no src/)
AfterSrc(p) == IF AuxEntries(p) # <<>> THEN "walk_additional" ELSE "build"

AfterDependencies(p) ==
    IF ~DirExists(p, s_src_dir) THEN "build"
    ELSE IF SrcEntries(p) # <<>> THEN "walk_src"
    ELSE AfterSrc(p)

Ok(value) == [ok |-> TRUE, value |-> value, error |-> ""]

Err(error) == [ok |-> FALSE, value |-> None, error |-> error]

\* main.rs: analyze_project, up to the call of the analyzer it selects
AnalyzeProject ==
    /\ pc = "start"
    /\ IF ~project.exists
       THEN /\ result' = Err("Project path does not exist")
            /\ pc' = "done"
       ELSE IF Exists(project, s_cargo_toml)
       THEN /\ pc' = "rust_deps"
            /\ UNCHANGED result
       ELSE IF \E marker \in Range(python_markers) : Exists(project, marker)
       THEN /\ pc' = "py_reqs"
            /\ UNCHANGED result
       ELSE /\ result' = Err("Not a valid Rust or Python project")
            /\ pc' = "done"
    /\ UNCHANGED <<project, cursor, modules, dependencies, relationships,
                   diagnostics, structure, problems>>

\* ProjectAnalyzer::analyze: parse_dependencies()?
ParseDependencies ==
    /\ pc = "rust_deps"
    /\ IF project.cargo.ok
       THEN /\ dependencies' = parse_dependencies(project.cargo.deps)
            /\ pc' = AfterDependencies(project)
            /\ UNCHANGED result
       ELSE /\ result' = Err("Rust analysis failed")
            /\ pc' = "done"
            /\ UNCHANGED dependencies
    /\ UNCHANGED <<project, cursor, modules, relationships, diagnostics,
                   structure, problems>>

\* one iteration of the loop of walk_source_files over src/
WalkSourceFile ==
    /\ pc = "walk_src"
    /\ cursor < Len(SrcEntries(project))
    /\ LET f == SrcEntries(project)[cursor + 1]
           path == FullPath(project.root, f.path)
           r == parse_file(path, path_to_module_name(f.path), f.content)
       IN IF r.ok
          THEN /\ modules' = Append(modules, r.module)
               /\ relationships' =
                      relationships \o UsesRelationships(r.module.id, r.uses, s_colons)
               /\ UNCHANGED diagnostics
          ELSE /\ diagnostics' = Append(diagnostics, path)
               /\ UNCHANGED <<modules, relationships>>
    /\ cursor' = IF cursor + 1 < Len(SrcEntries(project)) THEN cursor + 1 ELSE 0
    /\ pc' = IF cursor + 1 < Len(SrcEntries(project)) THEN "walk_src" ELSE AfterSrc(project)
    /\ UNCHANGED <<project, dependencies, result, structure, problems>>

\* one iteration of the loop of walk_additional_dirs
WalkAdditionalFile ==
    /\ pc = "walk_additional"
    /\ cursor < Len(AuxEntries(project))
    /\ LET f == AuxEntries(project)[cursor + 1]
           path == FullPath(project.root, f.path)
           r == parse_file(path, path_to_module_name(f.path), f.content)
       IN IF r.ok
          THEN /\ modules' = Append(modules, r.module)
               /\ UNCHANGED diagnostics
          ELSE /\ diagnostics' = Append(diagnostics, path)
               /\ UNCHANGED modules
    /\ cursor' = IF cursor + 1 < Len(AuxEntries(project)) THEN cursor + 1 ELSE 0
    /\ pc' = IF cursor + 1 < Len(AuxEntries(project)) THEN "walk_additional" ELSE "build"
    /\ UNCHANGED <<project, dependencies, relationships, result, structure, problems>>

\* ProjectAnalyzer::analyze: build_relationships(), then Ok(ProjectStructure)
BuildRelationships ==
    /\ pc = "build"
    /\ relationships' = build_relationships(modules, relationships, s_colons)
    /\ result' = Ok(ProjectStructure(project.root, modules, dependencies, relationships'))
    /\ pc' = "done"
    /\ UNCHANGED <<project, cursor, modules, dependencies, diagnostics,
                   structure, problems>>

\* PythonAnalyzer::analyze: parse_requirements()?
ParseRequirements ==
    /\ pc = "py_reqs"
    /\ LET first == SelectSeq(req_files, LAMBDA n : Exists(project, n))
       IN IF first # <<>> /\ first[1] = s_requirements_txt
          THEN IF project.requirements.utf8
               THEN /\ dependencies' = parse_requirements(project.requirements.text)
                    /\ pc' = IF PyEntries(project) # <<>> THEN "walk_py" ELSE "py_build"
                    /\ UNCHANGED result
               ELSE /\ result' = Err("Python analysis failed")
                    /\ pc' = "done"
                    /\ UNCHANGED dependencies
          ELSE /\ pc' = IF PyEntries(project) # <<>> THEN "walk_py" ELSE "py_build"
               /\ UNCHANGED <<dependencies, result>>
    /\ UNCHANGED <<project, cursor, modules, relationships, diagnostics,
                   structure, problems>>

\* one iteration of the loop of walk_python_files
WalkPythonFile ==
    /\ pc = "walk_py"
    /\ cursor < Len(PyEntries(project))
    /\ LET f == PyEntries(project)[cursor + 1]
           path == FullPath(project.root, f.path)
           r == parse_python_file(path, py_path_to_module_name(f.path), f.content)
       IN IF r.ok
          THEN /\ modules' = Append(modules, r.module)
               /\ relationships' =
                      relationships \o UsesRelationships(r.module.id, r.uses, s_dot)
          ELSE UNCHANGED <<modules, relationships>>
    /\ cursor' = IF cursor + 1 < Len(PyEntries(project)) THEN cursor + 1 ELSE 0
    /\ pc' = IF cursor + 1 < Len(PyEntries(project)) THEN "walk_py" ELSE "py_build"
    /\ UNCHANGED <<project, dependencies, diagnostics, result, structure, problems>>

\* PythonAnalyzer::analyze: build_relationships(), then Ok(ProjectStructure)
PyBuildRelationships ==
    /\ pc = "py_build"
    /\ relationships' = build_relationships(modules, relationships, s_dot)
    /\ result' = Ok(ProjectStructure(project.root, modules, dependencies, relationships'))
    /\ pc' = "done"
    /\ UNCHANGED <<project, cursor, modules, dependencies, diagnostics,
                   structure, problems>>

\* the caller hands the structure analyze_project returned to analyze_problems
AnalyzeProblemsOfResult ==
    /\ pc \in {"done", "analysed"}
    /\ result # None
    /\ result.ok
    /\ structure' = result.value
    /\ \E order \in Orders(ModuleIds(result.value.modules)) :
          problems' = analyze_problems(result.value, Disk(project), order)
    /\ pc' = "analysed"
    /\ UNCHANGED <<project, cursor, modules, dependencies, relationships,
                   diagnostics, result>>

Next ==
    \/ AnalyzeProject
    \/ ParseDependencies
    \/ WalkSourceFile
    \/ WalkAdditionalFile
    \/ BuildRelationships
    \/ ParseRequirements
    \/ WalkPythonFile
    \/ PyBuildRelationships
    \/ AnalyzeProblemsOfResult

(***************************************************************************)
(* The projects analyze_project is run on.                                 *)
(***************************************************************************)
p_src_b == <<"s", "r", "c", "/", "b", ".", "r", "s">>
p_src_a_mod == <<"s", "r", "c", "/", "a", "/", "m", "o", "d", ".", "r", "s">>
p_src_a_b == <<"s", "r", "c", "/", "a", "/", "b", ".", "r", "s">>
p_src_a__b == <<"s", "r", "c", "/", "a", "_", "b", ".", "r", "s">>
p_src_a_txt == <<"s", "r", "c", "/", "a", ".", "t", "x", "t">>
p_a_py == <<"a", ".", "p", "y">>
p_a_init_py == <<"a", "/", "_", "_", "i", "n", "i", "t", "_", "_", ".", "p", "y">>
p_a_b_py == <<"a", "/", "b", ".", "p", "y">>
p_a__b_py == <<"a", "_", "b", ".", "p", "y">>
p_setup_py == <<"s", "e", "t", "u", "p", ".", "p", "y">>

s_crate == <<"c", "r", "a", "t", "e">>
s_c == <<"c">>
s_f == <<"f">>
s_S == <<"S">>
s_K == <<"K">>
s_inner == <<"i", "n", "n", "e", "r">>

\* `use crate::<name>;` as the only item of a file of `lines` lines
UseCrate(name, lines) ==
    Content(TRUE, lines, TRUE,
            <<SynItem("Use", <<>>, "inherited",
                      UseTree("Path", s_crate, <<UseTree("Name", name, <<>>)>>), <<>>)>>,
            <<>>)

\* pub fn f() { struct S; }
\* pub(crate) mod inner { use {a as c, b::*}; pub(super) const K: u8 = 0; }
\* a_macro!();
MixedItems ==
    Content(TRUE, T_lines + 2, TRUE,
            <<SynItem("Fn", s_f, "pub", UseGlob,
                      <<SynItem("Struct", s_S, "inherited", UseGlob, <<>>)>>),
              SynItem("Mod", s_inner, "pub(crate)", UseGlob,
                      <<SynItem("Use", <<>>, "inherited",
                                UseTree("Group", <<>>,
                                        <<UseTree("Rename", s_a, <<>>),
                                          UseTree("Path", s_b, <<UseGlob>>)>>),
                                <<>>),
                        SynItem("Const", s_K, "pub(super)", UseGlob, <<>>)>>),
              SynItem("Macro", <<>>, "inherited", UseGlob, <<>>)>>,
            <<>>)

\* a file syn::parse_file rejects
SyntaxError == Content(TRUE, 3, FALSE, <<>>, <<>>)

RustContents == {UseCrate(s_a, T_lines), UseCrate(s_b, T_lines + 1), MixedItems, SyntaxError}

RustPaths == {p_src_main, p_src_a, p_src_b, p_src_a_mod, p_src_a_b, p_src_a__b, p_tests_a}

RustFiles ==
    {File(path, c) : path \in RustPaths, c \in RustContents}
        \cup {File(p_src_a_txt, PlainText(1))}

\* a file of Python text
PyText(text) == Content(TRUE, Len(text), TRUE, <<>>, text)

\* a file that is not valid UTF-8
NotUtf8 == Content(FALSE, 0, FALSE, <<>>, <<>>)

\* the lines of text the Python files are made of
l_import_a ==
    <<"i", "m", "p", "o", "r", "t", " ", "a">>
l_def_helper ==
    <<"d", "e", "f", " ", "_", "h", "e", "l", "p", "e", "r", "(", ")", ":">>
l_from_a_b ==
    <<"f", "r", "o", "m", " ", "a", ".", "b", " ", "i", "m", "p", "o", "r", "t", " ", "c">>
l_class_foo ==
    <<"c", "l", "a", "s", "s", " ", "F", "o", "o", "(", "B", "a", "s", "e", ")", ":">>
l_def_method ==
    <<" ", " ", " ", " ", "d", "e", "f", " ", "h", "e", "l", "p", "e", "r", "(", "s", "e", "l", "f", ")", ":">>

PyContents ==
    {PyText(<<l_import_a, l_def_helper>>),
     PyText(<<l_from_a_b, l_class_foo, l_def_method>>),
     NotUtf8}

PyPaths == {p_a_py, p_a_init_py, p_a_b_py, p_a__b_py, p_setup_py}

PyFiles == {File(path, c) : path \in PyPaths, c \in PyContents}

\* the directories a path lies in, each with its trailing '/'
DirsOf(path) == {SubSeq(path, 1, i) : i \in {j \in 1..Len(path) : path[j] = "/"}}

\* WalkDir yields the content of a directory as one block
WalkOrder(files) ==
    \A i, j, k \in 1..Len(files) :
        (i < j /\ j < k)
            => (DirsOf(files[i].path) \cap DirsOf(files[k].path)) \subseteq DirsOf(files[j].path)

\* the directories of up to MaxFiles files with distinct paths
Directories(choices) ==
    {fs \in UNION {[1..n -> choices] : n \in 0..MaxFiles} :
        /\ \A i, j \in 1..Len(fs) : fs[i].path = fs[j].path => i = j
        /\ WalkOrder(fs)}

\* what cargo metadata returns for the manifest
CargoOutcomes ==
    {NoCargo,
     [ok |-> TRUE,
      deps |-> <<[name |-> s_a, req |-> s_star, kind |-> "Normal"],
                 [name |-> s_b, req |-> s_star, kind |-> "Development"],
                 [name |-> s_c, req |-> s_star, kind |-> "Build"],
                 [name |-> s_f, req |-> s_star, kind |-> "Unknown"]>>]}

l_flask ==
    <<"f", "l", "a", "s", "k", "=", "=", "2", ".", "0", ".", "1">>
l_comment == <<"#", " ", "p", "i", "n", "n", "e", "d">>
l_requests == <<" ", "r", "e", "q", "u", "e", "s", "t", "s", " ">>

\* requirements.txt: a pinned name, a comment, a blank line, an unpinned name
Requirements == PyText(<<l_flask, l_comment, <<>>, l_requests>>)

RustProjects ==
    {Project(s_root, {s_cargo_toml}, c, NoRequirements, fs) :
        c \in CargoOutcomes, fs \in Directories(RustFiles)}

PyProjects ==
    {Project(s_root, {s_requirements_txt}, NoCargo, r, fs) :
        r \in {Requirements, NoRequirements}, fs \in Directories(PyFiles)}
    \cup {Project(s_root, {}, NoCargo, NoRequirements, fs) : fs \in Directories(PyFiles)}

MissingProject ==
    [Project(s_root, {}, NoCargo, NoRequirements, <<>>) EXCEPT !.exists = FALSE]

Init ==
    /\ project \in RustProjects \cup PyProjects \cup {MissingProject}
    /\ pc = "start"
    /\ cursor = 0
    /\ modules = <<>>
    /\ dependencies = <<>>
    /\ relationships = <<>>
    /\ diagnostics = <<>>
    /\ result = None
    /\ structure = None
    /\ problems = None

Spec == Init /\ [][Next]_vars

(***************************************************************************)
(* Projects of one source file (next to src/a.rs when the file lies under  *)
(* an auxiliary root), the file's name and its lines put together from     *)
(* small parts, for the properties of the per-file operations.             *)
(***************************************************************************)
s_test == <<"t", "e", "s", "t">>
s_tests == <<"t", "e", "s", "t", "s">>
s_mod == <<"m", "o", "d">>
s_colon == <<":">>
s_dunder_init == <<"_", "_", "i", "n", "i", "t", "_", "_">>
s_space == <<" ">>
s_paren == <<"(">>
s_import_c == <<" ", "i", "m", "p", "o", "r", "t", " ", "c">>

\* the concatenations of at most n of the parts
RECURSIVE Concats(_, _)
Concats(parts, n) ==
    IF n = 0 THEN {<<>>}
    ELSE LET shorter == Concats(parts, n - 1)
         IN shorter \cup {s \o part : s \in shorter, part \in parts}

\* a relative path without its extension: no empty segment
ValidStem(stem) ==
    /\ stem # <<>>
    /\ stem[1] # "/" /\ stem[Len(stem)] # "/"
    /\ ~Contains(stem, <<"/", "/">>)

RustStems(n) ==
    {stem \in Concats({s_a, s_main, s_lib, s_test, s_tests, s_mod, s_slash, s_colon,
                       s_underscore}, n) : ValidStem(stem)}

PyStems(n) ==
    {stem \in Concats({s_a, s_dot, s_underscore, s_slash, s_dunder_init}, n) :
        ValidStem(stem) /\ stem[1] # "."}

\* lines around a function declaration
DefLines == Concats({s_def, s_underscore, s_f, s_space, s_paren}, MaxLineParts)

\* dotted module paths of at most n segments, relative ones included
RECURSIVE Dotted(_)
Dotted(n) ==
    IF n = 1 THEN {s_a, s_b}
    ELSE Dotted(n - 1) \cup {d \o s_dot \o seg : d \in Dotted(n - 1), seg \in {s_a, s_b}}

ImportLines ==
    {keyword \o gap \o rel \o d \o tail :
        keyword \in {s_from, s_import}, gap \in {<<>>, s_space}, rel \in {<<>>, s_dot},
        d \in Dotted(MaxSegments), tail \in {<<>>, s_import_c}}

CargoOk == CHOOSE c \in CargoOutcomes : c.ok

FileProjects ==
    {Project(s_root, {s_cargo_toml}, CargoOk, NoRequirements,
             <<File(s_src_dir \o stem \o s_rs_ext, UseCrate(s_b, 1))>>) :
        stem \in RustStems(MaxStemParts)}
    \cup {Project(s_root, {s_cargo_toml}, CargoOk, NoRequirements,
                  <<File(p_src_a, UseCrate(s_b, 1)),
                    File(dir \o stem \o s_rs_ext, UseCrate(s_b, 1))>>) :
            dir \in {s_tests_dir, s_examples_dir, s_benches_dir},
            stem \in RustStems(MaxStemParts - 1)}
    \cup {Project(s_root, {s_pyproject_toml}, NoCargo, NoRequirements,
                  <<File(stem \o s_py_ext, PyText(<<s_import \o s_a \o s_dot \o s_b>>))>>) :
            stem \in PyStems(MaxStemParts)}
    \cup {Project(s_root, {s_pyproject_toml}, NoCargo, NoRequirements,
                  <<File(p_a_py, PyText(<<line>>))>>) :
            line \in DefLines \cup ImportLines \cup {l_def_helper}}

InitFiles ==
    /\ project \in FileProjects
    /\ pc = "start"
    /\ cursor = 0
    /\ modules = <<>>
    /\ dependencies = <<>>
    /\ relationships = <<>>
    /\ diagnostics = <<>>
    /\ result = None
    /\ structure = None
    /\ problems = None

SpecFiles == InitFiles /\ [][Next]_vars

(***************************************************************************)
(* Graph notions the properties are stated with, defined without the DFS.  *)
(***************************************************************************)
Edges(rels) == {<<rels[i].from, rels[i].to>> : i \in 1..Len(rels)}

\* the pairs of nodes joined by a directed walk of one or more edges
RECURSIVE Closure(_, _)
Closure(W, E) ==
    LET W2 == W \cup {<<p[1][1], p[2][2]>> : p \in {q \in W \X E : q[1][2] = q[2][1]}}
    IN IF W2 = W THEN W ELSE Closure(W2, E)

HasDirectedCycle(rels) ==
    \E w \in Closure(Edges(rels), Edges(rels)) : w[1] = w[2]

Analysed == pc = "analysed" /\ problems # None

\* analyze_project has returned a ProjectStructure
Returned == pc \in {"done", "analysed"} /\ result # None /\ result.ok

\* the family analyze_project selects for the directory
Family(p) ==
    IF ~p.exists THEN "none"
    ELSE IF Exists(p, s_cargo_toml) THEN "rust"
    ELSE IF \E marker \in Range(python_markers) : Exists(p, marker) THEN "python"
    ELSE "none"

\* the separator of logical paths in the family of the project
Separator(p) == IF Family(p) = "rust" THEN s_colons ELSE s_dot

(***************************************************************************)
(* C1: when the relationships (both kinds, dangling targets included)      *)
(* contain no directed cycle, detect_cycles returns the empty list.        *)
(***************************************************************************)
C1_AcyclicNoCycles ==
    (Analysed /\ ~HasDirectedCycle(structure.relationships))
        => problems.cycles = <<>>

\* an acyclic graph in which the DFS meets an already visited node again
C1_Witness ==
    /\ Analysed
    /\ ~HasDirectedCycle(structure.relationships)
    /\ \E i, j \in 1..Len(structure.relationships) :
          /\ i < j
          /\ structure.relationships[i].to = structure.relationships[j].to
          /\ structure.relationships[i].from \in ModuleIds(structure.modules)
          /\ structure.relationships[j].from \in ModuleIds(structure.modules)
          /\ structure.relationships[j].rel_type = "Declares"
    /\ problems.cycles = <<>>

(***************************************************************************)
(* C2: closure: every returned cycle is non-empty and the relationships    *)
(* hold an edge from its last recorded node to its first recorded node.    *)
(***************************************************************************)
C2_CycleClosed ==
    Analysed =>
        \A k \in 1..Len(problems.cycles) :
            LET c == problems.cycles[k]
            IN /\ Len(c) >= 1
               /\ <<c[Len(c)], c[1]>> \in Edges(structure.relationships)

\* a cycle found in the DFS from the only module, recorded from a node below
\* that root
C2_Witness ==
    /\ Analysed
    /\ Len(structure.modules) = 1
    /\ \E k \in 1..Len(problems.cycles) :
          problems.cycles[k][1] # structure.modules[1].id

(***************************************************************************)
(* C4: find_unused_modules reports, in module order, exactly the modules   *)
(* that no Uses relationship targets and whose kind is neither Binary nor  *)
(* Library; a Declares relationship does not make its target used.         *)
(***************************************************************************)
TargetOfUses(rels, m) ==
    \E r \in Range(rels) : r.rel_type = "Uses" /\ r.to = m.id

ExpectedUnused(s) ==
    SelectSeq(s.modules,
              LAMBDA m : /\ ~TargetOfUses(s.relationships, m)
                         /\ m.module_type \notin {"Binary", "Library"})

C4_UnusedModules ==
    Analysed =>
        /\ problems.unused_modules =
              [i \in 1..Len(ExpectedUnused(structure)) |-> ExpectedUnused(structure)[i].name]
        /\ \A i \in 1..Len(structure.modules) :
              LET m == structure.modules[i]
              IN /\ (m.module_type \in {"Binary", "Library"}
                       /\ \A j \in 1..Len(structure.modules) :
                             structure.modules[j].name = m.name
                                => structure.modules[j].module_type = m.module_type)
                    => m.name \notin Range(problems.unused_modules)
                 /\ (m.module_type \notin {"Binary", "Library"}
                       /\ ~TargetOfUses(structure.relationships, m))
                    => m.name \in Range(problems.unused_modules)

\* a module targeted by a Declares relationship only is reported, next to a
\* Binary module that nothing targets and that is not
C4_Witness ==
    /\ Analysed
    /\ \E i, j \in 1..Len(structure.modules) :
          /\ structure.modules[i].module_type = "Binary"
          /\ structure.modules[i].id \notin {e[2] : e \in Edges(structure.relationships)}
          /\ structure.modules[j].module_type = "Module"
          /\ \E r \in Range(structure.relationships) :
                r.rel_type = "Declares" /\ r.to = structure.modules[j].id
          /\ problems.unused_modules = <<structure.modules[j].name>>

(***************************************************************************)
(* C3: Scenario A.  With src/a.rs importing b and src/b.rs importing a as  *)
(* the only imports of the project, analyze returns exactly one Uses       *)
(* relationship a -> b and exactly one b -> a, and detect_cycles on the    *)
(* result returns a cycle of exactly two elements holding both ids.        *)
(***************************************************************************)
\* the file's only item is `use x;` or `use crate::x;`
IsImportOf(content, x) ==
    /\ content.utf8
    /\ content.syntax_ok
    /\ Len(content.items) = 1
    /\ content.items[1].kind = "Use"
    /\ content.items[1].tree \in
          {UseTree("Name", x, <<>>),
           UseTree("Path", s_crate, <<UseTree("Name", x, <<>>)>>)}

\* a source file that parses and holds a use item, at any depth
RECURSIVE HoldsUse(_)
HoldsUse(items) ==
    \E i \in 1..Len(items) : items[i].kind = "Use" \/ HoldsUse(items[i].inner)

ScenarioA(p) ==
    /\ Family(p) = "rust"
    /\ p.cargo.ok
    /\ \E i, j \in 1..Len(p.files) :
          /\ p.files[i].path = p_src_a
          /\ IsImportOf(p.files[i].content, s_b)
          /\ p.files[j].path = p_src_b
          /\ IsImportOf(p.files[j].content, s_a)
          /\ \A k \in 1..Len(p.files) :
                k \notin {i, j}
                    => \/ Extension(p.files[k].path) # s_rs
                       \/ ~p.files[k].content.utf8
                       \/ ~p.files[k].content.syntax_ok
                       \/ ~HoldsUse(p.files[k].content.items)

CountOf(rels, r) == Cardinality({i \in 1..Len(rels) : rels[i] = r})

C3_ScenarioA ==
    (Returned /\ ScenarioA(project)) =>
        LET s == result.value
            cycles == detect_cycles(s.modules, s.relationships)
        IN /\ CountOf(s.relationships, Relationship(s_a, s_b, "Uses")) = 1
           /\ CountOf(s.relationships, Relationship(s_b, s_a, "Uses")) = 1
           /\ \E k \in 1..Len(cycles) :
                 Len(cycles[k]) = 2 /\ Range(cycles[k]) = {s_a, s_b}

C3_Witness ==
    /\ Returned
    /\ ScenarioA(project)
    /\ Len(result.value.modules) = 2
    /\ Len(detect_cycles(result.value.modules, result.value.relationships)) = 1

(***************************************************************************)
(* C5: every module of the structure passed to analyze_problems appears in *)
(* large_modules iff its own lines of code exceed 500, and in              *)
(* highly_coupled iff its own count of incoming relationships exceeds 10.  *)
(***************************************************************************)
Appears(list, m) == \E i \in 1..Len(list) : list[i].name = m.name

OwnIncoming(s, m) ==
    Cardinality({i \in 1..Len(s.relationships) : s.relationships[i].to = m.id})

C5_OwnThresholds ==
    Analysed =>
        \A i \in 1..Len(structure.modules) :
            LET m == structure.modules[i]
            IN /\ Appears(problems.large_modules, m)
                    <=> LinesOfCode(Disk(project), m.path) > 500
               /\ Appears(problems.highly_coupled, m)
                    <=> OwnIncoming(structure, m) > 10

(***************************************************************************)
(* C6: no two modules of one analyze run, extracted from distinct source   *)
(* files, have the same id.                                                *)
(***************************************************************************)
C6_UniqueIds ==
    \A i, j \in 1..Len(modules) :
        modules[i].path # modules[j].path => modules[i].id # modules[j].id

(***************************************************************************)
(* C7: the `from` of every relationship the analyzer holds, and of every   *)
(* relationship of the structure analyze returns, is the id of one of the  *)
(* modules; `to` may name no module.                                       *)
(***************************************************************************)
C7_FromIsModule ==
    /\ \A i \in 1..Len(relationships) : relationships[i].from \in ModuleIds(modules)
    /\ Returned =>
          \A i \in 1..Len(result.value.relationships) :
              result.value.relationships[i].from \in ModuleIds(result.value.modules)

\* a returned structure with a Uses and a Declares relationship and a `to`
\* that names no module
C7_Witness ==
    /\ Returned
    /\ \E i, j, k \in 1..Len(result.value.relationships) :
          /\ result.value.relationships[i].rel_type = "Uses"
          /\ result.value.relationships[j].rel_type = "Declares"
          /\ result.value.relationships[k].to \notin ModuleIds(result.value.modules)

(***************************************************************************)
(* C8: the returned structure holds a Declares relationship p -> c exactly *)
(* for the modules c whose logical path has more than one segment and      *)
(* whose parent path has the canonical id p of a module of the structure,  *)
(* one relationship for each such module.                                  *)
(***************************************************************************)
Segments(name, sep) == Len(Split(name, sep))

\* the canonical id of the logical path without its last segment
ParentOf(name, sep) ==
    LET parts == Split(name, sep)
    IN Replace(Join([i \in 1..(Len(parts) - 1) |-> parts[i]], sep), sep, s_underscore)

Declared(s, sep) ==
    {i \in 1..Len(s.modules) :
        /\ Segments(s.modules[i].name, sep) > 1
        /\ ParentOf(s.modules[i].name, sep) \in ModuleIds(s.modules)}

C8_DeclaresExactly ==
    Returned =>
        LET s == result.value
            sep == Separator(project)
            D == SelectSeq(s.relationships, LAMBDA r : r.rel_type = "Declares")
        IN /\ Len(D) = Cardinality(Declared(s, sep))
           /\ \A i \in Declared(s, sep) :
                 Relationship(ParentOf(s.modules[i].name, sep), s.modules[i].id, "Declares")
                     \in Range(D)
           /\ \A k \in 1..Len(D) :
                 /\ D[k].from \in ModuleIds(s.modules)
                 /\ \E i \in Declared(s, sep) :
                       /\ D[k].to = s.modules[i].id
                       /\ D[k].from = ParentOf(s.modules[i].name, sep)

\* a returned structure with a Declares relationship, next to one module of
\* a single segment
C8_Witness ==
    /\ Returned
    /\ \E k \in 1..Len(result.value.relationships) :
          result.value.relationships[k].rel_type = "Declares"
    /\ \E i \in 1..Len(result.value.modules) :
          Segments(result.value.modules[i].name, Separator(project)) = 1

(***************************************************************************)
(* C9: for the same structure and unchanged files, every invocation of     *)
(* analyze_problems returns the same ProjectProblems, entry order          *)
(* included.                                                               *)
(***************************************************************************)
C9_SameProblems ==
    [][(problems # None /\ structure' = structure /\ project' = project)
          => problems' = problems]_vars

(***************************************************************************)
(* C10: a file whose extraction fails contributes no module and no         *)
(* relationship, a diagnostic names it, every other file of the walk is    *)
(* extracted in its traversal position, and analyze returns success.       *)
(***************************************************************************)
\* the source files the walk of the project's family reaches, in order
Walked(p) ==
    IF Family(p) = "rust"
    THEN (IF DirExists(p, s_src_dir) THEN SrcEntries(p) \o AuxEntries(p) ELSE <<>>)
    ELSE PyEntries(p)

\* extraction of the file fails: it cannot be read as text or, in the
\* structured family, does not parse
ExtractionFails(p, f) ==
    ~f.content.utf8 \/ (Family(p) = "rust" /\ ~f.content.syntax_ok)

\* the dependency manifest is resolved without error
ManifestResolves(p) ==
    IF Family(p) = "rust" THEN p.cargo.ok
    ELSE ~Exists(p, s_requirements_txt) \/ p.requirements.utf8

C10_FailureNonFatal ==
    (pc \in {"done", "analysed"} /\ Family(project) # "none" /\ ManifestResolves(project)) =>
        LET good == SelectSeq(Walked(project), LAMBDA f : ~ExtractionFails(project, f))
            bad == SelectSeq(Walked(project), LAMBDA f : ExtractionFails(project, f))
        IN /\ result.ok
           /\ [i \in 1..Len(result.value.modules) |-> result.value.modules[i].path]
                 = [i \in 1..Len(good) |-> FullPath(project.root, good[i].path)]
           /\ \A i \in 1..Len(bad) :
                 FullPath(project.root, bad[i].path) \in Range(diagnostics)

(***************************************************************************)
(* C11: on an existing directory that holds neither Cargo.toml nor any of  *)
(* setup.py, requirements.txt, pyproject.toml, __init__.py, analyze_project *)
(* returns the unrecognized-project error, no analyzer runs, and no module *)
(* list is produced.                                                       *)
(***************************************************************************)
Unrecognized(p) ==
    /\ p.exists
    /\ \A n \in {s_cargo_toml, s_setup_py, s_requirements_txt, s_pyproject_toml, s_init_py} :
          ~Exists(p, n)

C11_UnrecognizedProject ==
    Unrecognized(project) =>
        /\ pc \in {"start", "done"}
        /\ modules = <<>> /\ relationships = <<>> /\ dependencies = <<>>
        /\ diagnostics = <<>>
        /\ structure = None /\ problems = None
        /\ pc = "start" => result = None
        /\ pc = "done" =>
              /\ ~result.ok
              /\ result.value = None
              /\ result.error = "Not a valid Rust or Python project"

\* analyze_project has returned on a directory that holds source files of
\* the heuristic family but no marker
C11_Witness ==
    /\ Unrecognized(project)
    /\ pc = "done"
    /\ \E i \in 1..Len(project.files) : Extension(project.files[i].path) = s_py

(***************************************************************************)
(* C12: the normalization of Uses targets (`::` to `_` in the structured   *)
(* family, `.` to `_` in the heuristic family) returns every module id of  *)
(* that family unchanged, and applied to a target it has already           *)
(* normalized it changes nothing.                                          *)
(***************************************************************************)
\* use_path.replace(sep, "_") as walk_source_files / walk_python_files apply it
NormalizedTarget(raw, sep) == UsesRelationships(<<>>, <<raw>>, sep)[1].to

C12_NormalizationIdempotent ==
    /\ \A i \in 1..Len(modules) :
          NormalizedTarget(modules[i].id, Separator(project)) = modules[i].id
    /\ \A k \in 1..Len(relationships) :
          relationships[k].rel_type = "Uses" =>
              NormalizedTarget(relationships[k].to, Separator(project))
                  = relationships[k].to

\* a module whose logical path holds the separator, importing a dotted path
C12_Witness ==
    /\ Returned
    /\ \E i \in 1..Len(modules) :
          /\ Contains(modules[i].name, Separator(project))
          /\ modules[i].id # modules[i].name
    /\ \E k \in 1..Len(relationships) :
          /\ relationships[k].rel_type = "Uses"
          /\ relationships[k].to = s_a \o s_underscore \o s_b

(***************************************************************************)
(* C13: in the heuristic family every line that, trimmed, begins with      *)
(* `def ` and holds a `(` yields exactly one Function item, named by the   *)
(* text between the keyword and the first `(` with the whitespace around   *)
(* it removed, Private iff that name starts with an underscore and Public  *)
(* otherwise; other lines yield no Function item.                          *)
(***************************************************************************)
\* the text of the file a module was extracted from
TextOf(p, m) ==
    LET i == CHOOSE j \in 1..Len(p.files) : FullPath(p.root, p.files[j].path) = m.path
    IN p.files[i].content.text

IsDefLine(line) == StartsWith(Trim(line), s_def) /\ "(" \in Range(line)

\* the text between the keyword and the first `(` of a trimmed line
BetweenDefAndParen(line) ==
    LET t == Trim(line)
        paren == Min({i \in 1..Len(t) : t[i] = "("})
    IN SubSeq(t, Len(s_def) + 1, paren - 1)

UnderscoreVisibility(name) ==
    IF name # <<>> /\ name[1] = "_" THEN "Private" ELSE "Public"

\* the Function items the lines call for, the name being the text between the
\* keyword and the parenthesis, with the whitespace around it removed when
\* `trimmed`
RECURSIVE FunctionsOf(_, _)
FunctionsOf(text, trimmed) ==
    IF text = <<>> THEN <<>>
    ELSE (IF IsDefLine(text[1])
          THEN LET between == BetweenDefAndParen(text[1])
                   name == IF trimmed THEN Trim(between) ELSE between
               IN <<Item(name, "Function", UnderscoreVisibility(name))>>
          ELSE <<>>)
         \o FunctionsOf(Tail(text), trimmed)

FunctionItems(m) == SelectSeq(m.items, LAMBDA it : it.item_type = "Function")

C13_DefLineItems ==
    Family(project) = "python" =>
        \A i \in 1..Len(modules) :
            FunctionItems(modules[i]) = FunctionsOf(TextOf(project, modules[i]), TRUE)

\* C13 as stated: the name is the text between the keyword and the first `(`
\* as it stands
C13_DefLineItems_AsStated ==
    Family(project) = "python" =>
        \A i \in 1..Len(modules) :
            FunctionItems(modules[i]) = FunctionsOf(TextOf(project, modules[i]), FALSE)

\* Scenario B: the file whose only declaration line is `def _helper():`
C13_Witness ==
    /\ Returned
    /\ Len(modules) = 1
    /\ TextOf(project, modules[1]) = <<l_def_helper>>
    /\ modules[1].items = <<Item(<<"_", "h", "e", "l", "p", "e", "r">>, "Function", "Private")>>

(***************************************************************************)
(* C14: the kind of a module of the structured family is Test when its     *)
(* file lies under the tests root or its file name ends in test.rs, else   *)
(* Example under examples, else Benchmark under benches, else Binary iff   *)
(* the file name is main.rs, else Library iff the file name is lib.rs,     *)
(* else Module; a name that only contains main.rs or lib.rs is Module.     *)
(***************************************************************************)
\* the path of the module's file relative to the project root
RelativePath(p, m) == Drop(m.path, Len(p.root) + 1)

KindByPattern(rel) ==
    IF StartsWith(rel, s_tests_dir) \/ EndsWith(FileName(rel), s_test_rs) THEN "Test"
    ELSE IF StartsWith(rel, s_examples_dir) THEN "Example"
    ELSE IF StartsWith(rel, s_benches_dir) THEN "Benchmark"
    ELSE IF FileName(rel) = s_main_rs THEN "Binary"
    ELSE IF FileName(rel) = s_lib_rs THEN "Library"
    ELSE "Module"

C14_KindByPattern ==
    Family(project) = "rust" =>
        \A i \in 1..Len(modules) :
            modules[i].module_type = KindByPattern(RelativePath(project, modules[i]))

(***************************************************************************)
(* C15: the items of a module of the structured family are exactly the     *)
(* top-level Function / Struct / Enum / Trait / Const / Static / Type /    *)
(* Macro declarations of its file, in source order; a declaration nested   *)
(* in an inline module or in a function body is not among them.            *)
(***************************************************************************)
\* what syn::parse_file made of the file a module was extracted from
SyntaxOf(p, m) ==
    LET i == CHOOSE j \in 1..Len(p.files) : FullPath(p.root, p.files[j].path) = m.path
    IN p.files[i].content.items

\* the named top-level declarations of the eight kinds, in source order
TopLevelDeclarations(items) ==
    LET decl == SelectSeq(items, LAMBDA it : it.kind \in ItemKinds /\ it.ident # <<>>)
    IN [k \in 1..Len(decl) |->
           [name |-> decl[k].ident, item_type |-> ItemTypeOf(decl[k].kind)]]

C15_TopLevelOnly ==
    Family(project) = "rust" =>
        \A i \in 1..Len(modules) :
            [k \in 1..Len(modules[i].items) |->
                [name |-> modules[i].items[k].name,
                 item_type |-> modules[i].items[k].item_type]]
            = TopLevelDeclarations(SyntaxOf(project, modules[i]))

(***************************************************************************)
(* C16: for every module of the structure analyze returns, and every raw   *)
(* import target collected while its file was extracted, the relationships *)
(* hold a Uses edge from the module's id to the normalized target, for     *)
(* files under tests/, examples/, benches/ as for files under src/.        *)
(***************************************************************************)
\* the raw import targets the extraction of the module's file collects
RawTargets(p, m) ==
    LET i == CHOOSE j \in 1..Len(p.files) : FullPath(p.root, p.files[j].path) = m.path
        content == p.files[i].content
    IN IF Family(p) = "rust" THEN visit_items(content.items).uses
       ELSE scan_lines(content.text).uses

C16_UsesForEveryTarget ==
    Returned =>
        LET s == result.value IN
        \A i \in 1..Len(s.modules) :
            LET raw == RawTargets(project, s.modules[i]) IN
            \A t \in 1..Len(raw) :
                \E k \in 1..Len(s.relationships) :
                    s.relationships[k]
                        = Relationship(s.modules[i].id,
                                       Replace(raw[t], Separator(project), s_underscore),
                                       "Uses")

(***************************************************************************)
(* C17: in the heuristic family a line `from X.Y import Z` yields the raw  *)
(* import target X.Y, the whole dotted path that follows the keyword, so   *)
(* the Uses edge of the line targets the id X_Y.                           *)
(***************************************************************************)
\* the line `from <path> import c`, the path relative when `rel` is a dot
FromImportLine(gap, rel, d) == s_from \o gap \o rel \o d \o s_import_c

\* the Uses relationships of the returned structure
UsesOf(s) == SelectSeq(s.relationships, LAMBDA r : r.rel_type = "Uses")

\* X of the dotted path X.Y
FirstSegment(d) ==
    LET dots == {i \in 1..Len(d) : d[i] = "."}
    IN IF dots = {} THEN d ELSE SubSeq(d, 1, Min(dots) - 1)

C17_FromImportWholePath ==
    (Returned /\ Family(project) = "python" /\ Len(result.value.modules) = 1) =>
        LET m == result.value.modules[1] IN
        \A gap \in {<<>>, s_space}, rel \in {<<>>, s_dot}, d \in Dotted(MaxSegments) :
            TextOf(project, m) = <<FromImportLine(gap, rel, d)>> =>
                UsesOf(result.value)
                    = <<Relationship(m.id, Replace(rel \o d, s_dot, s_underscore), "Uses")>>

\* C17 as stated: only the first dotted segment X is kept
C17_FromImportFirstSegment ==
    (Returned /\ Family(project) = "python" /\ Len(result.value.modules) = 1) =>
        LET m == result.value.modules[1] IN
        \A gap \in {<<>>, s_space}, d \in Dotted(MaxSegments) :
            TextOf(project, m) = <<FromImportLine(gap, <<>>, d)>> =>
                UsesOf(result.value) = <<Relationship(m.id, FirstSegment(d), "Uses")>>

\* `from a.b import c` has been extracted
C17_Witness ==
    /\ Returned
    /\ Len(result.value.modules) = 1
    /\ TextOf(project, result.value.modules[1]) = <<l_from_a_b>>
    /\ UsesOf(result.value)
          = <<Relationship(s_a, s_a \o s_underscore \o s_b, "Uses")>>

(***************************************************************************)
(* C18: on every module list and relationship list (cycles, self-loops,    *)
(* duplicate edges and dangling targets included) detect_cycles comes to   *)
(* an end with every call of dfs_cycle returned and no node entered twice, *)
(* and when the relationships hold a directed cycle all of whose nodes are *)
(* module ids, the list it returns is not empty.                           *)
(***************************************************************************)
\* the edges between module ids
ModuleEdges(s) ==
    {e \in Edges(s.relationships) :
        e[1] \in ModuleIds(s.modules) /\ e[2] \in ModuleIds(s.modules)}

HasModuleCycle(s) ==
    \E w \in Closure(ModuleEdges(s), ModuleEdges(s)) : w[1] = w[2]

\* the nodes of the graph: the module ids and both ends of every edge
NodesOf(s) ==
    ModuleIds(s.modules)
        \cup {e[1] : e \in Edges(s.relationships)} \cup {e[2] : e \in Edges(s.relationships)}

C18_DfsEndsAndFindsCycles ==
    Analysed =>
        LET run == detect_run(structure.modules, structure.relationships) IN
        /\ \A i, j \in 1..Len(run.calls) : run.calls[i] = run.calls[j] => i = j
        /\ Range(run.calls) \subseteq NodesOf(structure)
        /\ ModuleIds(structure.modules) \subseteq Range(run.calls)
        /\ run.rec_stack = {} /\ run.path = <<>>
        /\ HasModuleCycle(structure) => problems.cycles # <<>>

\* a run over a self-loop, a repeated edge and an edge to a node that is no
\* module, in which the DFS entered a node that is no module
C18_Witness ==
    /\ Analysed
    /\ HasModuleCycle(structure)
    /\ \E i, j \in 1..Len(structure.relationships) :
          i # j /\ structure.relationships[i] = structure.relationships[j]
    /\ \E k \in 1..Len(structure.relationships) :
          structure.relationships[k].to \notin ModuleIds(structure.modules)
    /\ Range(detect_run(structure.modules, structure.relationships).calls)
          # ModuleIds(structure.modules)

====
